---- MODULE Spec2Model ----
(***************************************************************************)
(* Model of analysis.py: a sequential report generator that lists the      *)
(* projects of an organization, the repositories of each project and five  *)
(* metrics of each repository over HTTP, and writes one CSV row per        *)
(* repository (or one placeholder row per empty project).                  *)
(*                                                                         *)
(* Every HTTP exchange is an input: the response of each requests.get is   *)
(* drawn from a small set when the call is made.  The six fetch functions  *)
(* are operators from a response to a Python result (a value or a raised   *)
(* exception); main() is a state machine with one action per call site.    *)
(***************************************************************************)
EXTENDS Integers, Sequences, FiniteSets, TLC

\* ------------------------------------------------------------------ bounds
MaxProjects == 2    \* projects in the organization
MaxOrgRepos == 3    \* repositories in the organization, over all projects
MaxItems    == 3    \* entries of a "value" list given to a fetch function alone

\* ------------------------------------------------------ Python values
\* A Python value that reaches a CSV field: an int, a str or None.
IntV(n) == [t |-> "int", n |-> n, s |-> ""]
StrV(s) == [t |-> "str", n |-> 0, s |-> s]
NoneV   == [t |-> "none", n |-> 0, s |-> ""]

\* The result of a Python call: a returned value, or an exception raised.
Ret(v) == [raised |-> FALSE, val |-> v]
Raise  == [raised |-> TRUE, val |-> NoneV]

\* ------------------------------------------------------ HTTP exchanges
\* requests.get either raises (no connection, timeout: conn = FALSE) or
\* returns a response with a status code and a body.
Response(status, body) == [conn |-> TRUE, status |-> status, body |-> body]
NoBody   == [json |-> FALSE, has |-> FALSE, value |-> <<>>]
ConnectionError == [conn |-> FALSE, status |-> 0, body |-> NoBody]

\* response.raise_for_status(): HTTPError for 4xx and 5xx.
raise_for_status(resp) == resp.status >= 400 /\ resp.status < 600

\* Bodies of the list endpoints: {"value": [...]}, {} or text that is not JSON.
ListBody(v) == [json |-> TRUE, has |-> TRUE, value |-> v]
EmptyObject == [json |-> TRUE, has |-> FALSE, value |-> <<>>]

\* response.json().get("value", [])
json_get_value(body) == IF body.has THEN body.value ELSE <<>>

\* The list fetchers share one shape: get, raise_for_status, json, "value".
\* Any failure propagates to the caller.
fetch_value_list(resp) ==
    IF ~resp.conn THEN Raise
    ELSE IF raise_for_status(resp) THEN Raise
    ELSE IF ~resp.body.json THEN Raise
    ELSE Ret(json_get_value(resp.body))

get_projects(resp) == fetch_value_list(resp)

get_repositories(resp) == fetch_value_list(resp)

\* ------------------------------------------------ get_repository_metadata
\* Body of "get repository by id": {"size": n, "project": {"lastUpdateTime": t}}
\* with either key possibly missing.
MetadataBody(hasSize, size, hasProject, hasTime, time) ==
    [json |-> TRUE, hasSize |-> hasSize, size |-> size,
     hasProject |-> hasProject, hasTime |-> hasTime, time |-> time]
NotJsonMetadata ==
    [json |-> FALSE, hasSize |-> FALSE, size |-> 0,
     hasProject |-> FALSE, hasTime |-> FALSE, time |-> ""]

Pair(a, b) == [size |-> a, last_updated |-> b]
ArchivedPair == Pair(StrV("Archived/Inaccessible"), StrV("Archived/Inaccessible"))
ErrorPair    == Pair(StrV("Error"), StrV("Error"))

\* The 404 case forgotten: every HTTP error gives the "Error" pair.
get_repository_metadata_no404(resp) ==
    IF ~resp.conn THEN Ret(ErrorPair)
    ELSE IF raise_for_status(resp) THEN Ret(ErrorPair)
    ELSE IF ~resp.body.json THEN Ret(ErrorPair)
    ELSE Ret(Pair(
            IF resp.body.hasSize THEN IntV(resp.body.size) ELSE IntV(0),
            IF resp.body.hasProject /\ resp.body.hasTime
                THEN StrV(resp.body.time) ELSE StrV("Unknown")))

get_repository_metadata(resp) ==
    IF ~resp.conn THEN Ret(ErrorPair)                     \* except Exception
    ELSE IF raise_for_status(resp) THEN                   \* except HTTPError
        IF resp.status = 404 THEN Ret(ArchivedPair) ELSE Ret(ErrorPair)
    ELSE IF ~resp.body.json THEN Ret(ErrorPair)           \* except Exception
    ELSE Ret(Pair(
            IF resp.body.hasSize THEN IntV(resp.body.size) ELSE IntV(0),
            IF resp.body.hasProject /\ resp.body.hasTime
                THEN StrV(resp.body.time) ELSE StrV("Unknown")))

\* ------------------------------------------------------------ get_branches
\* A failure turned into a marker, as get_files does, instead of propagating.
get_branches_degrading(resp) ==
    LET r == fetch_value_list(resp)
    IN  IF r.raised THEN Ret(StrV("Error")) ELSE Ret(IntV(Len(r.val)))

get_branches(resp) ==
    LET r == fetch_value_list(resp)
    IN  IF r.raised THEN Raise ELSE Ret(IntV(Len(r.val)))

\* --------------------------------------------------------------- get_files
\* An entry of the items list: a dict with a "size" key (a file), a dict
\* without one (a folder), or a JSON value that is no dict.
FileItem   == [dict |-> TRUE, hasSize |-> TRUE]
FolderItem == [dict |-> TRUE, hasSize |-> FALSE]
ScalarItem == [dict |-> FALSE, hasSize |-> FALSE]

\* Body of "list items": {"count": n, "value": [...]}; "count" may be
\* missing or null, "value" may be missing.
FilesBody(hasCount, count, has, value) ==
    [json |-> TRUE, hasCount |-> hasCount, count |-> count,
     has |-> has, value |-> value]
NotJsonFiles ==
    [json |-> FALSE, hasCount |-> FALSE, count |-> NoneV,
     has |-> FALSE, value |-> <<>>]

\* len([item for item in items if isinstance(item, dict) and "size" in item])
RECURSIVE count_sized(_)
count_sized(items) ==
    IF items = <<>> THEN 0
    ELSE (IF Head(items).dict /\ Head(items).hasSize THEN 1 ELSE 0)
         + count_sized(Tail(items))

FilesError == StrV("Error fetching files")

\* "if not file_count" for "if file_count is None": a count of 0 falls back
\* to counting the entries.
get_files_falsy_count(resp) ==
    IF ~resp.conn THEN Ret(FilesError)
    ELSE IF raise_for_status(resp) THEN
        IF resp.status = 404 THEN Ret(IntV(0)) ELSE Ret(FilesError)
    ELSE IF ~resp.body.json THEN Ret(FilesError)
    ELSE LET file_count == IF resp.body.hasCount THEN resp.body.count ELSE NoneV
         IN  IF file_count = NoneV \/ file_count = IntV(0)
                 THEN Ret(IntV(count_sized(json_get_value(resp.body))))
                 ELSE Ret(file_count)

\* Only the 404 is handled: any other failure propagates to the caller.
get_files_raising(resp) ==
    IF ~resp.conn THEN Raise
    ELSE IF raise_for_status(resp) THEN
        IF resp.status = 404 THEN Ret(IntV(0)) ELSE Raise
    ELSE IF ~resp.body.json THEN Raise
    ELSE LET file_count == IF resp.body.hasCount THEN resp.body.count ELSE NoneV
         IN  IF file_count = NoneV
                 THEN Ret(IntV(count_sized(json_get_value(resp.body))))
                 ELSE Ret(file_count)

get_files(resp) ==
    IF ~resp.conn THEN Ret(FilesError)                    \* except Exception
    ELSE IF raise_for_status(resp) THEN                   \* except HTTPError
        IF resp.status = 404 THEN Ret(IntV(0)) ELSE Ret(FilesError)
    ELSE IF ~resp.body.json THEN Ret(FilesError)          \* except Exception
    ELSE LET file_count == IF resp.body.hasCount THEN resp.body.count ELSE NoneV
         IN  IF file_count = NoneV
                 THEN Ret(IntV(count_sized(json_get_value(resp.body))))
                 ELSE Ret(file_count)

\* ------------------------------------------------ get_pull_request_metrics
\* len([pr for pr in pull_requests if pr["status"] == "active"])
\* Every pull request that is not completed counted as open.
RECURSIVE count_not_completed(_)
count_not_completed(prs) ==
    IF prs = <<>> THEN 0
    ELSE (IF Head(prs).status # "completed" THEN 1 ELSE 0)
         + count_not_completed(Tail(prs))

RECURSIVE count_active(_)
count_active(prs) ==
    IF prs = <<>> THEN 0
    ELSE (IF Head(prs).status = "active" THEN 1 ELSE 0) + count_active(Tail(prs))

get_pull_request_metrics(resp) ==
    LET r == fetch_value_list(resp)
    IN  IF r.raised THEN Raise ELSE Ret(IntV(count_active(r.val)))

\* ---------------------------------------------------- get_commit_frequency
get_commit_frequency(resp) ==
    LET r == fetch_value_list(resp)
    IN  IF r.raised THEN Raise ELSE Ret(IntV(Len(r.val)))

\* ------------------------------------------------------------- CSV fields
\* str(n) of a non-negative int with at least two digits: "05", "12".
TwoDigits(n) == IF n < 10 THEN "0" \o ToString(n) ELSE ToString(n)

\* f"{size / 1024:.2f}": size/1024 is exact in binary floating point, so the
\* result is the decimal rounding of size*100/1024, ties to even.
FormatKB(size) ==
    LET q == (size * 100) \div 1024
        r == (size * 100) % 1024
        h == IF r > 512 \/ (r = 512 /\ q % 2 = 1) THEN q + 1 ELSE q
    IN  ToString(h \div 100) \o "." \o TwoDigits(h % 100)

\* The text csv.DictWriter writes for a value: a str as it is, str(v) otherwise.
csv_field(v) ==
    IF v.t = "str" THEN v.s
    ELSE IF v.t = "int" THEN ToString(v.n)
    ELSE ""

\* f"{size / 1024:.2f}" if isinstance(size, (int, float)) else size
size_field(size) == IF size.t = "int" THEN FormatKB(size.n) ELSE csv_field(size)

fieldnames ==
    << "Project Name", "Repository Name", "Repository Size (KB)", "Last Updated",
       "Number of Branches", "File Count", "Open PRs", "Commits in last 30 Days" >>

\* The dict given to writer.writerow, as the tuple of its fields in
\* fieldnames order.
Row(project, repo, sz, updated, branches, files, prs, commits) ==
    << project, repo, size_field(sz), csv_field(updated), csv_field(branches),
       csv_field(files), csv_field(prs), csv_field(commits) >>

\* The placeholder with zero counts instead of "N/A".
PlaceholderRow_zeros(project_name) ==
    << project_name, "N/A", "N/A", "N/A", "0", "0", "0", "0" >>

PlaceholderRow(project_name) ==
    << project_name, "N/A", "N/A", "N/A", "N/A", "N/A", "N/A", "N/A" >>

\* The newest row put right under the header instead of at the end.
writerow_newest_first(file, row) ==
    IF file = <<>> THEN << row >> ELSE << Head(file), row >> \o Tail(file)

\* writer.writeheader() / writer.writerow(row): one more line at the end.
writerow(file, row) == Append(file, row)

\* =================================================================== state
VARIABLES
    pc,               \* the call site main() is at
    raised,           \* the function whose exception left main() uncaught, or "none"
    projects,         \* main: projects
    pi,               \* index of `project` in the for loop over projects
    repositories,     \* main: repositories
    ri,               \* index of `repo` in the for loop over repositories
    size, last_updated, branch_count, file_count, open_prs, commit_frequency,
    csv,              \* the lines of OUTPUT_FILE, each a tuple of fields
    fileOpen,         \* whether csvfile is open
    requests,         \* every GET issued so far: <<endpoint, project, repo id>>
    listed,           \* outcome of get_repositories for each project tried so far
    resp,             \* the responses to the metric requests of the current
                      \* project's latest repo
    call, ret         \* a fetch function applied on its own: its input and result

vars == << pc, raised, projects, pi, repositories, ri, size, last_updated,
           branch_count, file_count, open_prs, commit_frequency, csv, fileOpen,
           requests, listed, resp, call, ret >>

locals == << size, last_updated, branch_count, file_count, open_prs,
             commit_frequency >>

\* ------------------------------------------------------------ the service
\* The organization's projects and repositories: the k-th project and the
\* k-th repository the service holds.
ProjectNames == << "Alpha", "Beta", "Gamma", "Delta" >>
Project(k) == [name |-> ProjectNames[k]]
Repo(k) == [name |-> "repo" \o ToString(k), id |-> "id" \o ToString(k)]

\* Repositories already returned by earlier listings.
RECURSIVE ReposListed(_)
ReposListed(l) ==
    IF l = <<>> THEN 0 ELSE Head(l).n + ReposListed(Tail(l))

ProjectsResponses ==
    { ConnectionError, Response(401, NoBody), Response(200, EmptyObject) }
    \cup { Response(200, ListBody([k \in 1..n |-> Project(k)])) : n \in 0..MaxProjects }

RepositoriesResponses(used) ==
    { ConnectionError, Response(404, NoBody), Response(200, EmptyObject) }
    \cup { Response(200, ListBody([k \in 1..n |-> Repo(used + k)])) :
             n \in 0..(MaxOrgRepos - used) }

MetadataResponses ==
    { ConnectionError, Response(404, NotJsonMetadata), Response(500, NotJsonMetadata),
      Response(200, MetadataBody(TRUE, 204800, TRUE, TRUE, "2024-05-01T10:00:00Z")) }

BranchesResponses ==
    { Response(500, NoBody), Response(200, ListBody(<< "main", "dev", "hotfix" >>)) }

FilesResponses ==
    { Response(500, NotJsonFiles),
      Response(200, FilesBody(TRUE, IntV(10), TRUE, << FileItem >>)) }

PullRequest(status) == [status |-> status]
PullRequestsResponses ==
    { Response(500, NoBody),
      Response(200, ListBody(<< PullRequest("active"), PullRequest("completed"),
                                PullRequest("active") >>)) }

CommitsResponses ==
    { Response(500, NoBody), Response(200, ListBody(<< "c1", "c2", "c3", "c4", "c5" >>)) }

NotSent == [conn |-> FALSE, status |-> -1, body |-> NoBody]
NoResponses ==
    [metadata |-> NotSent, branches |-> NotSent, files |-> NotSent,
     pull_requests |-> NotSent, commits |-> NotSent]

Unbound == NoneV
NoCall  == [fn |-> "none", resp |-> NotSent]
NoRet   == [raised |-> FALSE, val |-> NoneV]

\* ==================================================================== main
Init ==
    /\ pc = "get_projects"
    /\ raised = "none"
    /\ projects = <<>>
    /\ pi = 0
    /\ repositories = <<>>
    /\ ri = 0
    /\ size = Unbound /\ last_updated = Unbound /\ branch_count = Unbound
    /\ file_count = Unbound /\ open_prs = Unbound /\ commit_frequency = Unbound
    /\ csv = <<>>
    /\ fileOpen = FALSE
    /\ requests = <<>>
    /\ listed = <<>>
    /\ resp = NoResponses
    /\ call = NoCall
    /\ ret = NoRet

project_name == projects[pi].name
repo_name == repositories[ri].name
repo_id == repositories[ri].id

\* An exception nothing in main() catches: the with block closes csvfile on
\* the way out and the run ends.
Uncaught(fn) ==
    /\ raised' = fn
    /\ pc' = "crashed"
    /\ fileOpen' = FALSE

\* projects = get_projects()
GetProjects ==
    /\ pc = "get_projects"
    /\ \E r \in ProjectsResponses :
        LET res == get_projects(r) IN
        /\ requests' = Append(requests, << "projects", "", "" >>)
        /\ IF res.raised
             THEN /\ Uncaught("get_projects")
                  /\ UNCHANGED projects
             ELSE /\ projects' = res.val
                  /\ pc' = "open"
                  /\ UNCHANGED << raised, fileOpen >>
    /\ UNCHANGED << pi, repositories, ri, locals, csv, listed, resp, call, ret >>

\* with open(OUTPUT_FILE, "w") ...: writer.writeheader()
OpenOutput ==
    /\ pc = "open"
    /\ fileOpen' = TRUE
    /\ csv' = writerow(<<>>, fieldnames)
    /\ pi' = 1
    /\ pc' = "project"
    /\ UNCHANGED << raised, projects, repositories, ri, locals, requests, listed,
                    resp, call, ret >>

\* The for loop over projects is exhausted: the with block ends, main returns.
Finish ==
    /\ pc = "project"
    /\ pi > Len(projects)
    /\ fileOpen' = FALSE
    /\ pc' = "done"
    /\ UNCHANGED << raised, projects, pi, repositories, ri, locals, csv, requests,
                    listed, resp, call, ret >>

\* The next project of the list, after the current one is dealt with.
next_project ==
    /\ pi' = pi + 1
    /\ pc' = "project"

\* The failing project given the placeholder row of an empty one.
on_repositories_error_placeholder ==
    /\ csv' = writerow(csv, PlaceholderRow(projects[pi].name))
    /\ next_project
    /\ UNCHANGED << repositories, ri >>

\* break for continue: the loop over the projects ends at the failing one.
on_repositories_error_break ==
    /\ pi' = Len(projects) + 1
    /\ pc' = "project"
    /\ UNCHANGED << repositories, ri, csv >>

\* except Exception as e: print(...); continue
on_repositories_error ==
    /\ next_project
    /\ UNCHANGED << repositories, ri, csv >>

\* try: repositories = get_repositories(project_name); an empty list writes
\* the placeholder row and continues; an exception skips the project.
ListRepositories ==
    /\ pc = "project"
    /\ pi <= Len(projects)
    /\ \E r \in RepositoriesResponses(ReposListed(listed)) :
        LET res == get_repositories(r) IN
        /\ requests' = Append(requests, << "repositories", project_name, "" >>)
        /\ IF res.raised
             THEN /\ listed' = Append(listed, [ok |-> FALSE, n |-> 0])
                  /\ on_repositories_error
             ELSE /\ listed' = Append(listed, [ok |-> TRUE, n |-> Len(res.val)])
                  /\ repositories' = res.val
                  /\ IF res.val = <<>>
                       THEN /\ csv' = writerow(csv, PlaceholderRow(project_name))
                            /\ next_project
                            /\ UNCHANGED ri
                       ELSE /\ ri' = 1
                            /\ pc' = "metadata"
                            /\ UNCHANGED << pi, csv >>
    /\ resp' = NoResponses
    /\ UNCHANGED << raised, projects, locals, fileOpen, call, ret >>

\* try: size, last_updated = get_repository_metadata(...) except: "Error", "Error"
FetchMetadata ==
    /\ pc = "metadata"
    /\ \E r \in MetadataResponses :
        LET res  == get_repository_metadata(r)
            pair == IF res.raised THEN ErrorPair ELSE res.val
        IN
        /\ requests' = Append(requests, << "metadata", project_name, repo_id >>)
        /\ resp' = [NoResponses EXCEPT !.metadata = r]
        /\ size' = pair.size
        /\ last_updated' = pair.last_updated
    /\ pc' = "branches"
    /\ UNCHANGED << raised, projects, pi, repositories, ri, branch_count, file_count,
                    open_prs, commit_frequency, csv, fileOpen, listed, call, ret >>

\* branch_count = get_branches(repo_id, project_name)
FetchBranches ==
    /\ pc = "branches"
    /\ \E r \in BranchesResponses :
        LET res == get_branches(r) IN
        /\ requests' = Append(requests, << "branches", project_name, repo_id >>)
        /\ resp' = [resp EXCEPT !.branches = r]
        /\ IF res.raised
             THEN /\ Uncaught("get_branches")
                  /\ UNCHANGED branch_count
             ELSE /\ branch_count' = res.val
                  /\ pc' = "files"
                  /\ UNCHANGED << raised, fileOpen >>
    /\ UNCHANGED << projects, pi, repositories, ri, size, last_updated, file_count,
                    open_prs, commit_frequency, csv, listed, call, ret >>

\* file_count = get_files(repo_id, project_name)
FetchFiles ==
    /\ pc = "files"
    /\ \E r \in FilesResponses :
        LET res == get_files(r) IN
        /\ requests' = Append(requests, << "files", project_name, repo_id >>)
        /\ resp' = [resp EXCEPT !.files = r]
        /\ IF res.raised
             THEN /\ Uncaught("get_files")
                  /\ UNCHANGED file_count
             ELSE /\ file_count' = res.val
                  /\ pc' = "pull_requests"
                  /\ UNCHANGED << raised, fileOpen >>
    /\ UNCHANGED << projects, pi, repositories, ri, size, last_updated, branch_count,
                    open_prs, commit_frequency, csv, listed, call, ret >>

\* open_prs = get_pull_request_metrics(repo_id, project_name)
FetchPullRequests ==
    /\ pc = "pull_requests"
    /\ \E r \in PullRequestsResponses :
        LET res == get_pull_request_metrics(r) IN
        /\ requests' = Append(requests, << "pull_requests", project_name, repo_id >>)
        /\ resp' = [resp EXCEPT !.pull_requests = r]
        /\ IF res.raised
             THEN /\ Uncaught("get_pull_request_metrics")
                  /\ UNCHANGED open_prs
             ELSE /\ open_prs' = res.val
                  /\ pc' = "commits"
                  /\ UNCHANGED << raised, fileOpen >>
    /\ UNCHANGED << projects, pi, repositories, ri, size, last_updated, branch_count,
                    file_count, commit_frequency, csv, listed, call, ret >>

\* commit_frequency = get_commit_frequency(repo_id, project_name)
FetchCommits ==
    /\ pc = "commits"
    /\ \E r \in CommitsResponses :
        LET res == get_commit_frequency(r) IN
        /\ requests' = Append(requests, << "commits", project_name, repo_id >>)
        /\ resp' = [resp EXCEPT !.commits = r]
        /\ IF res.raised
             THEN /\ Uncaught("get_commit_frequency")
                  /\ UNCHANGED commit_frequency
             ELSE /\ commit_frequency' = res.val
                  /\ pc' = "write"
                  /\ UNCHANGED << raised, fileOpen >>
    /\ UNCHANGED << projects, pi, repositories, ri, size, last_updated, branch_count,
                    file_count, open_prs, csv, listed, call, ret >>

\* writer.writerow({...}), then the next repo, or the next project after the last.
WriteRow ==
    /\ pc = "write"
    /\ csv' = writerow(csv, Row(project_name, repo_name, size, last_updated,
                                branch_count, file_count, open_prs, commit_frequency))
    /\ IF ri < Len(repositories)
         THEN /\ ri' = ri + 1
              /\ pc' = "metadata"
              /\ UNCHANGED pi
         ELSE /\ next_project
              /\ UNCHANGED ri
    /\ UNCHANGED << raised, projects, repositories, locals, fileOpen, requests,
                    listed, resp, call, ret >>

Next ==
    \/ GetProjects
    \/ OpenOutput
    \/ ListRepositories
    \/ FetchMetadata
    \/ FetchBranches
    \/ FetchFiles
    \/ FetchPullRequests
    \/ FetchCommits
    \/ WriteRow
    \/ Finish

Spec == Init /\ [][Next]_vars

\* ============================================== a fetch function on its own
\* The fetch functions are stateless: each is also run alone, on one response
\* drawn from a wider set than main()'s.
Statuses == { 200, 404, 403, 500 }

RECURSIVE SeqsUpTo(_, _)
SeqsUpTo(S, n) ==
    IF n = 0 THEN { <<>> }
    ELSE LET shorter == SeqsUpTo(S, n - 1)
         IN  shorter \cup { Append(q, x) : q \in shorter, x \in S }

FilesInputs ==
    { ConnectionError, Response(200, NotJsonFiles) }
    \cup { Response(st, NotJsonFiles) : st \in Statuses \ { 200 } }
    \cup { Response(200, FilesBody(TRUE, c, TRUE, v)) :
             c \in { NoneV, IntV(0), IntV(7) },
             v \in SeqsUpTo({ FileItem, FolderItem, ScalarItem }, MaxItems - 1) }
    \cup { Response(200, FilesBody(FALSE, NoneV, TRUE, v)) :
             v \in SeqsUpTo({ FileItem, FolderItem, ScalarItem }, MaxItems) }
    \cup { Response(200, FilesBody(hc, NoneV, FALSE, <<>>)) : hc \in BOOLEAN }

PullRequestStatuses == { "active", "completed", "abandoned" }
PullRequestsInputs ==
    { ConnectionError, Response(200, NoBody), Response(200, EmptyObject) }
    \cup { Response(st, NoBody) : st \in Statuses \ { 200 } }
    \cup { Response(200, ListBody(v)) :
             v \in SeqsUpTo({ PullRequest(st) : st \in PullRequestStatuses }, MaxItems) }

MetadataInputs ==
    { ConnectionError, Response(200, NotJsonMetadata) }
    \cup { Response(st, NotJsonMetadata) : st \in Statuses \ { 200 } }
    \cup { Response(200, MetadataBody(hs, sz, hp, ht, "2024-05-01T10:00:00Z")) :
             hs \in BOOLEAN, sz \in { 0, 1536, 204800 }, hp \in BOOLEAN, ht \in BOOLEAN }

FnInit ==
    /\ pc = "call"
    /\ raised = "none"
    /\ projects = <<>> /\ pi = 0 /\ repositories = <<>> /\ ri = 0
    /\ size = Unbound /\ last_updated = Unbound /\ branch_count = Unbound
    /\ file_count = Unbound /\ open_prs = Unbound /\ commit_frequency = Unbound
    /\ csv = <<>> /\ fileOpen = FALSE /\ requests = <<>> /\ listed = <<>>
    /\ resp = NoResponses
    /\ ret = NoRet
    /\ call \in   { [fn |-> "get_files", resp |-> r] : r \in FilesInputs }
             \cup { [fn |-> "get_pull_request_metrics", resp |-> r] :
                      r \in PullRequestsInputs }
             \cup { [fn |-> "get_repository_metadata", resp |-> r] :
                      r \in MetadataInputs }

main_vars == << raised, projects, pi, repositories, ri, locals, csv, fileOpen,
                requests, listed, resp >>

CallGetFiles ==
    /\ pc = "call" /\ call.fn = "get_files"
    /\ ret' = get_files(call.resp)
    /\ pc' = "returned"
    /\ UNCHANGED << main_vars, call >>

CallGetPullRequestMetrics ==
    /\ pc = "call" /\ call.fn = "get_pull_request_metrics"
    /\ ret' = get_pull_request_metrics(call.resp)
    /\ pc' = "returned"
    /\ UNCHANGED << main_vars, call >>

CallGetRepositoryMetadata ==
    /\ pc = "call" /\ call.fn = "get_repository_metadata"
    /\ ret' = get_repository_metadata(call.resp)
    /\ pc' = "returned"
    /\ UNCHANGED << main_vars, call >>

FnNext ==
    \/ CallGetFiles
    \/ CallGetPullRequestMetrics
    \/ CallGetRepositoryMetadata

FnSpec == FnInit /\ [][FnNext]_vars

\* ================================================================ properties
Max(a, b) == IF a >= b THEN a ELSE b

\* The data rows of the output file: its lines after the header.
DataRows == IF csv = <<>> THEN <<>> ELSE Tail(csv)

MetricFetchers == { "get_branches", "get_pull_request_metrics", "get_commit_frequency" }
Terminated == pc \in { "done", "crashed" }

\* A response that makes a fetch fail: no response at all, or a 4xx/5xx status.
Failed(r) == r # NotSent /\ (~r.conn \/ r.status >= 400)

\* The repositories the service returned for the i-th project are the
\* FirstRepo(i) + 1 .. FirstRepo(i) + listed[i].n -th of the organization.
FirstRepo(i) == ReposListed(SubSeq(listed, 1, i - 1))

\* The rows written when the i-th project has been dealt with up to its
\* k-th repository: none if the listing raised, the placeholder if it was
\* empty, one <<project, repository>> per repository otherwise.
ProjectKeys(i, k) ==
    IF ~listed[i].ok THEN <<>>
    ELSE IF listed[i].n = 0 THEN << << projects[i].name, "N/A" >> >>
    ELSE [j \in 1..k |-> << projects[i].name, Repo(FirstRepo(i) + j).name >>]

\* Repositories of the i-th project whose row is due: all of them once the
\* loop has moved on, those before the current one otherwise.
ReposDone(i) == IF i < pi THEN listed[i].n ELSE ri - 1

RECURSIVE KeysUpTo(_)
KeysUpTo(m) ==
    IF m = 0 THEN <<>> ELSE KeysUpTo(m - 1) \o ProjectKeys(m, ReposDone(m))

RowKeys == [i \in 1..Len(DataRows) |-> << DataRows[i][1], DataRows[i][2] >>]

CountWhere(seq, P(_)) == Cardinality({ i \in DOMAIN seq : P(seq[i]) })

\* ---------------------------------------------------------------------- C1
RECURSIVE SumMaxOne(_)
SumMaxOne(l) ==
    IF l = <<>> THEN 0 ELSE Max(1, Head(l).n) + SumMaxOne(Tail(l))

RECURSIVE SumListedRows(_)
SumListedRows(l) ==
    IF l = <<>> THEN 0
    ELSE (IF Head(l).ok THEN Max(1, Head(l).n) ELSE 0) + SumListedRows(Tail(l))

\* C1 as stated, for a run that ends normally: the file holds the sum over
\* the projects of max(1, number of repositories) data rows, so at least one
\* per project whatever the outcome of its listing.
C1_RowsEqualSumOfMaxOne ==
    pc = "done" => Len(DataRows) = SumMaxOne(listed)

\* C1 amended: a run that ends normally holds, for each project whose
\* repository listing succeeded, max(1, number of repositories) data rows and
\* none for a project whose listing raised; a run ended by an uncaught metric
\* failure holds that many rows for the projects before the current one plus
\* one per repository of the current project completed before the failure.
C1_RowsEqualSumOverListed ==
    /\ pc = "done" => Len(DataRows) = SumListedRows(listed)
    /\ (pc = "crashed" /\ raised \in MetricFetchers) =>
          Len(DataRows) = SumListedRows(SubSeq(listed, 1, pi - 1)) + (ri - 1)

C1_Witness ==
    /\ pc = "done"
    /\ \E i \in DOMAIN listed : ~listed[i].ok
    /\ \E i \in DOMAIN listed : listed[i].ok /\ listed[i].n >= 2
    /\ Len(DataRows) = 2

\* ---------------------------------------------------------------------- C2
\* C2: when the run is over, every repository whose metrics were requested
\* has its row in the file: a failing metric fetch does not cost the row.
C2_NoRepositoryRowSkipped ==
    (Terminated /\ raised # "get_projects") =>
        CountWhere(requests, LAMBDA q : q[1] = "metadata")
            = CountWhere(DataRows, LAMBDA row : row[2] # "N/A")

\* ---------------------------------------------------------------------- C3
ListingRaisedNow == Len(listed') = Len(listed) + 1 /\ ~listed'[Len(listed')].ok

\* C3: the step in which get_repositories raises writes nothing, leaves the
\* file open and every row as it was, ends nothing, and leaves main() at the
\* head of the loop on the next project with everything but the loop index as
\* it was before the failing project was reached.
C3_ListingFailureSkipsProject ==
    [][ListingRaisedNow =>
          /\ csv' = csv
          /\ fileOpen' /\ raised' = "none"
          /\ pc' = "project" /\ pi' = pi + 1
          /\ UNCHANGED << projects, repositories, ri, locals >>]_vars

C3_Witness ==
    /\ pc = "done"
    /\ Len(listed) = 2 /\ ~listed[1].ok /\ listed[2].ok /\ listed[2].n >= 2
    /\ Len(DataRows) = listed[2].n
    /\ DataRows[1][1] = projects[2].name

\* ---------------------------------------------------------------------- C4
MetricEndpoints == { "metadata", "branches", "files", "pull_requests", "commits" }

\* C4: a project whose listing succeeded and was empty has exactly one row,
\* its name followed by seven "N/A", and no metric request was issued for it.
C4_EmptyProjectPlaceholder ==
    \A i \in DOMAIN listed :
        (listed[i].ok /\ listed[i].n = 0) =>
            /\ CountWhere(DataRows, LAMBDA row : row[1] = projects[i].name) = 1
            /\ \E j \in DOMAIN DataRows :
                   DataRows[j] = << projects[i].name, "N/A", "N/A", "N/A", "N/A",
                                    "N/A", "N/A", "N/A" >>
            /\ CountWhere(requests, LAMBDA q : q[2] = projects[i].name
                                               /\ q[1] \in MetricEndpoints) = 0

C4_Witness ==
    /\ pc = "done"
    /\ Len(listed) = 2
    /\ listed[1].ok /\ listed[1].n = 1
    /\ listed[2].ok /\ listed[2].n = 0
    /\ Len(DataRows) = 2

\* ---------------------------------------------------------------------- C5
\* The latest repository's row has just been written: all five responses
\* are in and main() has moved on.
RowWritten == pc \in { "metadata", "project", "done" } /\ resp.commits # NotSent
LastRow == csv[Len(csv)]

ActiveCount(prs) == Cardinality({ i \in DOMAIN prs : prs[i].status = "active" })

\* C5: a 404 on the metadata request gives size and last-updated
\* "Archived/Inaccessible", any other metadata failure gives "Error", in the
\* locals right after the call and in the row, which is written with the
\* branch, file, open-PR and commit fields of their own fetches.
C5_MetadataNotFoundRow ==
    /\ (pc = "branches" /\ Failed(resp.metadata)) =>
          LET marker == IF resp.metadata.conn /\ resp.metadata.status = 404
                          THEN StrV("Archived/Inaccessible") ELSE StrV("Error")
          IN  size = marker /\ last_updated = marker
    /\ (RowWritten /\ Failed(resp.metadata)) =>
          LET marker == IF resp.metadata.conn /\ resp.metadata.status = 404
                          THEN "Archived/Inaccessible" ELSE "Error"
          IN  /\ LastRow[1] = projects[Len(listed)].name
              /\ LastRow[3] = marker
              /\ LastRow[4] = marker
              /\ LastRow[5] = ToString(Len(resp.branches.body.value))
              /\ LastRow[6] = IF Failed(resp.files) THEN "Error fetching files"
                              ELSE ToString(resp.files.body.count.n)
              /\ LastRow[7] = ToString(ActiveCount(resp.pull_requests.body.value))
              /\ LastRow[8] = ToString(Len(resp.commits.body.value))

C5_Witness ==
    /\ RowWritten
    /\ resp.metadata.conn /\ resp.metadata.status = 404
    /\ LastRow[3] = "Archived/Inaccessible"
    /\ LastRow[5] = "3" /\ LastRow[6] = "10" /\ LastRow[7] = "2" /\ LastRow[8] = "5"

\* ---------------------------------------------------------------------- C6
Returned(fn) == pc = "returned" /\ call.fn = fn
SizedCount(items) ==
    Cardinality({ i \in DOMAIN items : items[i].dict /\ items[i].hasSize })

\* C6: get_files never raises; a 404 gives the integer 0; any other HTTP
\* error, a failed connection or an unreadable body gives "Error fetching
\* files"; a good response gives its "count" when it carries one (a number),
\* and otherwise the number of entries of "value" that have a "size".
C6_GetFilesResult ==
    Returned("get_files") =>
        LET r == call.resp IN
        /\ ~ret.raised
        /\ (r.conn /\ r.status = 404) => ret.val = IntV(0)
        /\ (~r.conn \/ (r.status >= 400 /\ r.status # 404)
                     \/ (r.status = 200 /\ ~r.body.json))
              => ret.val = StrV("Error fetching files")
        /\ (r.conn /\ r.status = 200 /\ r.body.json) =>
              IF r.body.hasCount /\ r.body.count.t = "int"
                THEN ret.val = r.body.count
                ELSE ret.val = IntV(SizedCount(IF r.body.has THEN r.body.value ELSE <<>>))

C6_Witness ==
    /\ Returned("get_files")
    /\ call.resp.conn /\ call.resp.status = 200 /\ call.resp.body.json
    /\ ~call.resp.body.hasCount
    /\ Len(call.resp.body.value) = 3
    /\ ret.val = IntV(2)

\* ---------------------------------------------------------------------- C9
\* C9: on a list of pull requests get_pull_request_metrics returns the number
\* of entries whose status is "active", a number from 0 to the list's length.
C9_OpenPullRequestCount ==
    (Returned("get_pull_request_metrics") /\ call.resp.conn
        /\ call.resp.status = 200 /\ call.resp.body.json) =>
        LET prs == IF call.resp.body.has THEN call.resp.body.value ELSE <<>> IN
        /\ ~ret.raised
        /\ ret.val = IntV(ActiveCount(prs))
        /\ ret.val.n >= 0 /\ ret.val.n <= Len(prs)

C9_Witness ==
    /\ Returned("get_pull_request_metrics")
    /\ call.resp.conn /\ call.resp.status = 200 /\ call.resp.body.has
    /\ Len(call.resp.body.value) = 3
    /\ call.resp.body.value[2].status = "abandoned"
    /\ ret.val = IntV(1)

\* ---------------------------------------------------------------------- C7
\* main() is sequential and every HTTP call returns or raises: a step that
\* can be taken is taken.
LiveSpec == Spec /\ WF_vars(Next)

\* The run ended normally: main returned, the file is closed and holds the
\* header and every row of every project of the list.
NormalEnd ==
    /\ pc = "done" /\ raised = "none" /\ ~fileOpen
    /\ Len(listed) = Len(projects)
    /\ csv[1] = fieldnames
    /\ RowKeys = KeysUpTo(Len(projects))

\* C7: once get_projects has succeeded the run reaches its normal end,
\* whatever the metadata and file-count requests answer, unless a branch,
\* pull-request or commit fetch raises.
C7_RunTerminatesNormally ==
    (pc = "open") ~> (NormalEnd \/ raised \in MetricFetchers)

C7_Witness ==
    /\ NormalEnd
    /\ \E i \in DOMAIN DataRows :
           DataRows[i][3] = "Error" /\ DataRows[i][6] = "Error fetching files"
    /\ \E i \in DOMAIN DataRows : DataRows[i][3] = "Archived/Inaccessible"

\* ---------------------------------------------------------------------- C8
IsPrefix(a, b) == Len(a) <= Len(b) /\ SubSeq(b, 1, Len(a)) = a

\* C8: the header is the first line and the data rows are, in order, the rows
\* of the projects in get_projects order, each project's repositories in
\* get_repositories order; a step of the run only ever adds lines at the end.
C8_DiscoveryOrder ==
    /\ [](csv # <<>> => (csv[1] = fieldnames /\ RowKeys = KeysUpTo(Len(listed))))
    /\ [][IsPrefix(csv, csv')]_vars

C8_Witness ==
    /\ pc = "done"
    /\ Len(listed) = 2 /\ listed[1].n = 2 /\ listed[2].n = 1
    /\ RowKeys = << << "Alpha", "repo1" >>, << "Alpha", "repo2" >>,
                    << "Beta", "repo3" >> >>

\* --------------------------------------------------------------------- C10
FailedFetcher ==
    IF Failed(resp.branches) THEN "get_branches"
    ELSE IF Failed(resp.pull_requests) THEN "get_pull_request_metrics"
    ELSE IF Failed(resp.commits) THEN "get_commit_frequency"
    ELSE "none"

\* C10: when the branch, pull-request or commit request of a repository
\* fails, the exception leaves main(): the run is over with the file closed,
\* holding the header and exactly the rows completed before, with no row for
\* that repository, a later repository or a later project.
C10_MetricFailureEndsRun ==
    FailedFetcher # "none" =>
        /\ pc = "crashed" /\ raised = FailedFetcher
        /\ ~fileOpen
        /\ ~ENABLED Next
        /\ csv[1] = fieldnames
        /\ RowKeys = KeysUpTo(pi - 1)
                       \o [j \in 1..(ri - 1) |-> << project_name, repositories[j].name >>]
        /\ \A i \in DOMAIN DataRows :
              /\ DataRows[i][2] # repo_name
              /\ \A k \in (pi + 1)..Len(projects) : DataRows[i][1] # projects[k].name

C10_Witness ==
    /\ pc = "crashed" /\ raised = "get_commit_frequency"
    /\ pi = 2 /\ ri = 2
    /\ Len(DataRows) = 2

====
